---------------------------- MODULE Spec2Model ----------------------------
(***************************************************************************)
(* Model of the OpenClaw gateway sidecar supervisor of simplestclaw's      *)
(* desktop shell:                                                          *)
(*   src/apps/desktop/src-tauri/src/sidecar.rs  (SidecarManager, locator,  *)
(*                                               token generator)          *)
(*   src/apps/desktop/src-tauri/src/config.rs   (Config::load)             *)
(*   src/apps/desktop/src-tauri/src/lib.rs      (window-destroyed handler) *)
(*                                                                         *)
(* Option<T> values are sequences of length at most one: <<>> is None and  *)
(* <<x>> is Some(x).  Every fallible OS call whose Result the code matches *)
(* on (try_wait, kill, wait, spawn) may return either Ok or Err: the       *)
(* outcome is an input of the step, and an Err tells nothing about the     *)
(* process itself.                                                         *)
(***************************************************************************)
EXTENDS Integers, Sequences, FiniteSets, TLC

VARIABLES
    child,      \* SidecarState.child : Option<Child>, the pid of the held handle
    info,       \* SidecarState.info  : Option<GatewayInfo>
    lock,       \* holder of SidecarManager.state (Mutex): <<>> or <<thread>>
    poisoned,   \* the Mutex is poisoned (a thread panicked while holding it)
    procs,      \* every process spawned so far, indexed by pid
    pc,         \* per thread: where it is in the call it is making
    closing,    \* the window has been destroyed, its handler has been entered
    last        \* the outcome of the operation that completed most recently

vars == <<child, info, lock, poisoned, procs, pc, closing, last>>

---------------------------------------------------------------------------
(* Bounds of the model *)

NumThreads == 2     \* command-dispatch threads calling the supervisor
MaxSpawns == 2      \* processes spawned in one run
MaxSecs == 1        \* clock readings: whole seconds since the epoch
MaxNanos == 1       \* clock readings: sub-second nanoseconds

(* Program constants *)

DefaultPort == 18789

CmdThreads == 1..NumThreads
Main == 0
Threads == CmdThreads \cup {Main}

None == <<>>
Some(x) == <<x>>

---------------------------------------------------------------------------
(* Inputs drawn from the environment at each call *)

\* what Config::load finds on disk
Ports == {DefaultPort, DefaultPort + 1}
Keys == {None, Some("sk-ant")}
ConfigFiles ==
    [kind : {"file"}, key : Keys, port : Ports]
    \cup [kind : {"absent", "nodir", "unreadable", "badjson"}, key : {None}, port : {DefaultPort}]

\* SystemTime::now(): before the epoch (duration_since fails) or a reading
ClockReadings ==
    [ok : {TRUE}, secs : 0..MaxSecs, nanos : 0..MaxNanos]
    \cup [ok : {FALSE}, secs : {0}, nanos : {0}]

\* what find_openclaw sees: the outcome of `which openclaw`, whether HOME is
\* set, and which of the four well-known locations exist
WhichOutcomes == {"spawn_failed", "nonzero", "empty", "path"}
Envs == [which : WhichOutcomes, home : BOOLEAN, exists : SUBSET (1..4)]

\* the Result of one fallible OS call: try_wait, kill, wait
IoResults == {"ok", "err"}

---------------------------------------------------------------------------
(* Pure functions *)

HexChars == <<"0", "1", "2", "3", "4", "5", "6", "7",
              "8", "9", "a", "b", "c", "d", "e", "f">>

\* format!("{:x}", n): lower-case hexadecimal, no padding, "0" for zero
RECURSIVE Hex(_)
Hex(n) ==
    IF n < 16 THEN <<HexChars[n + 1]>>
    ELSE Hex(n \div 16) \o <<HexChars[(n % 16) + 1]>>

DecChars == <<"0", "1", "2", "3", "4", "5", "6", "7", "8", "9">>

\* u16::to_string / format!("{}", n): decimal, no padding
RECURSIVE Dec(_)
Dec(n) ==
    IF n < 10 THEN <<DecChars[n + 1]>>
    ELSE Dec(n \div 10) \o <<DecChars[(n % 10) + 1]>>

\* generate_token: "sclw-" followed by the seconds and the sub-second
\* nanoseconds of the clock reading, both in hexadecimal, with nothing between
\* them; a clock before the epoch reads as the zero duration
generate_token(clock) ==
    LET duration == IF clock.ok THEN [secs |-> clock.secs, nanos |-> clock.nanos]
                    ELSE [secs |-> 0, nanos |-> 0]
    IN  <<"sclw-">> \o Hex(duration.secs) \o Hex(duration.nanos)

NpmLocations == <<"$HOME/.npm-global/bin/openclaw",
                  "$HOME/node_modules/.bin/openclaw",
                  "/usr/local/bin/openclaw",
                  "/opt/homebrew/bin/openclaw">>

\* find_openclaw: the path `which` prints, else the first well-known
\* location that exists; None when `which` cannot be run or HOME is unset
find_openclaw(env) ==
    IF env.which = "spawn_failed" THEN None
    ELSE IF env.which = "path" THEN Some("$(which openclaw)")
    ELSE IF ~env.home THEN None
    ELSE LET found == {i \in 1..Len(NpmLocations) : i \in env.exists}
         IN  IF found = {} THEN None
             ELSE Some(NpmLocations[CHOOSE i \in found : \A j \in found : i <= j])

\* Config::load: Err when the directory, the read or the parse fails, the
\* defaults when there is no file, else the file's record
Config_load(file) ==
    IF file.kind \in {"nodir", "unreadable", "badjson"}
    THEN [ok |-> FALSE, anthropic_api_key |-> None, gateway_port |-> DefaultPort]
    ELSE IF file.kind = "absent"
    THEN [ok |-> TRUE, anthropic_api_key |-> None, gateway_port |-> DefaultPort]
    ELSE [ok |-> TRUE, anthropic_api_key |-> file.key, gateway_port |-> file.port]

\* (mutant) the url is built with the default port
GatewayInfo_default_url(port, token) ==
    [url |-> <<"ws://localhost:">> \o Dec(DefaultPort), port |-> port, token |-> token]

\* GatewayInfo as start builds it
GatewayInfo(port, token) ==
    [url |-> <<"ws://localhost:">> \o Dec(port), port |-> port, token |-> token]

\* what the calls of one start can obtain from the three functions
ConfigLoads == {Config_load(f) : f \in ConfigFiles}
Tokens == {generate_token(c) : c \in ClockReadings}
Located == {find_openclaw(e) : e \in Envs}

---------------------------------------------------------------------------
(* Processes *)

Pids == 1..Len(procs)
Alive(p) == procs[p].st \in {"running", "killed"}
LivePids == {p \in Pids : Alive(p)}

\* Child::try_wait: Ok(Some(status)) once the process has exited, Ok(None)
\* while it has not, or Err
try_wait(p, r) ==
    IF r = "err" THEN "error"
    ELSE IF procs[p].st = "exited" THEN "exited" ELSE "alive"

\* the outcomes the poll of the held handle may have in start and status
Polls == IF child = None THEN {"none"} ELSE {try_wait(child[1], r) : r \in IoResults}

\* (mutant) the Err arm alone clears the field
Reconciled_error_only(polled, field) ==
    IF polled = "error" THEN None ELSE field

\* (mutant) the match on the poll clears the field only for an exited process
Reconciled_exited_only(polled, field) ==
    IF polled = "exited" THEN None ELSE field

\* (mutant) the match on the poll clears the field whatever the poll gave
Reconciled_any_poll(polled, field) ==
    IF polled # "none" THEN None ELSE field

\* a field of the state after the match on the poll: cleared when the
\* process has exited and when the poll failed
Reconciled(polled, field) ==
    IF polled \in {"exited", "error"} THEN None ELSE field

---------------------------------------------------------------------------
(* Outcome of the operation that completed most recently: what it returned
   (ok, err, info, running) and what it did on the way: the poll's outcome,
   what Config::load gave ("not_loaded" when it was not called), what
   find_openclaw gave ("not_called" likewise), and the pid it spawned *)

Outcome(op, ok, err, inf, running, poll, loaded, located, spawned) ==
    [op |-> op, ok |-> ok, err |-> err, info |-> inf, running |-> running,
     poll |-> poll, loaded |-> loaded, located |-> located, spawned |-> spawned]

\* how an outcome records the Result of Config::load and of find_openclaw
Loaded(config) ==
    IF ~config.ok THEN "error"
    ELSE IF config.anthropic_api_key = None THEN "no_credential" ELSE "credential"

Resolved(openclaw_cmd) == IF openclaw_cmd = None THEN "none" ELSE "found"

Returned(t) == IF t = Main THEN "done" ELSE "idle"

Init ==
    /\ child = None
    /\ info = None
    /\ lock = None
    /\ poisoned = FALSE
    /\ procs = <<>>
    /\ pc = [t \in Threads |-> "idle"]
    /\ closing = FALSE
    /\ last = Outcome("none", TRUE, "", None, FALSE, "none",
                     "not_loaded", "not_called", None)

---------------------------------------------------------------------------
(* Commands arriving from the front end, and the window's destruction *)

\* #[tauri::command] start_gateway: calls manager.start
start_gateway(t) ==
    /\ t \in CmdThreads /\ pc[t] = "idle" /\ ~closing
    /\ pc' = [pc EXCEPT ![t] = "start"]
    /\ UNCHANGED <<child, info, lock, poisoned, procs, closing, last>>

\* #[tauri::command] stop_gateway: calls manager.stop
stop_gateway(t) ==
    /\ t \in CmdThreads /\ pc[t] = "idle" /\ ~closing
    /\ pc' = [pc EXCEPT ![t] = "stop"]
    /\ UNCHANGED <<child, info, lock, poisoned, procs, closing, last>>

\* #[tauri::command] get_gateway_status: calls manager.status
get_gateway_status(t) ==
    /\ t \in CmdThreads /\ pc[t] = "idle" /\ ~closing
    /\ pc' = [pc EXCEPT ![t] = "status"]
    /\ UNCHANGED <<child, info, lock, poisoned, procs, closing, last>>

\* run's on_window_event: on WindowEvent::Destroyed the main thread calls
\* manager.stop() and discards its result.  The window is the source of the
\* commands: none is in progress and none follows.
on_window_event ==
    /\ ~closing
    /\ \A t \in CmdThreads : pc[t] \in {"idle", "panicked"}
    /\ closing' = TRUE
    /\ pc' = [pc EXCEPT ![Main] = "stop"]
    /\ UNCHANGED <<child, info, lock, poisoned, procs, last>>

\* the held or a discarded gateway process exits: on its own, or because it
\* was killed
exit(p) ==
    /\ p \in Pids /\ Alive(p)
    /\ procs' = [procs EXCEPT ![p].st = "exited"]
    /\ UNCHANGED <<child, info, lock, poisoned, pc, closing, last>>

---------------------------------------------------------------------------
(* SidecarManager::start *)

\* (mutant) a failing start leaves info as it was before reconciliation
StartFails_keeps_info(t, err, polled, loaded, located, c, i) ==
    /\ child' = c
    /\ info' = info
    /\ pc' = [pc EXCEPT ![t] = Returned(t)]
    /\ last' = Outcome("start", FALSE, err, None, FALSE, polled, loaded, located, None)
    /\ UNCHANGED <<lock, poisoned, procs, closing>>

\* (mutant) a failing start leaves the handle as it was before reconciliation
StartFails_keeps_child(t, err, polled, loaded, located, c, i) ==
    /\ child' = child
    /\ info' = i
    /\ pc' = [pc EXCEPT ![t] = Returned(t)]
    /\ last' = Outcome("start", FALSE, err, None, FALSE, polled, loaded, located, None)
    /\ UNCHANGED <<lock, poisoned, procs, closing>>

\* (mutant) a failing start returns one undifferentiated error
StartFails_one_error(t, err, polled, loaded, located, c, i) ==
    /\ child' = c
    /\ info' = i
    /\ pc' = [pc EXCEPT ![t] = Returned(t)]
    /\ last' = Outcome("start", FALSE, "failed", None, FALSE, polled, loaded, located, None)
    /\ UNCHANGED <<lock, poisoned, procs, closing>>

\* start returns Err(err); c and i are the fields as reconciliation left them
StartFails(t, err, polled, loaded, located, c, i) ==
    /\ child' = c
    /\ info' = i
    /\ pc' = [pc EXCEPT ![t] = Returned(t)]
    /\ last' = Outcome("start", FALSE, err, None, FALSE, polled, loaded, located, None)
    /\ UNCHANGED <<lock, poisoned, procs, closing>>

\* Command::spawn succeeded: the new process is stored with its GatewayInfo,
\* then println! and the return
StartSpawns(t, polled, config, token, openclaw_cmd, print_ok) ==
    LET pid == Len(procs) + 1
        built == GatewayInfo(config.gateway_port, token)
    IN  /\ Len(procs) < MaxSpawns
        /\ procs' = Append(procs, [st |-> "running", env_token |-> token,
                                   arg_port |-> config.gateway_port])
        /\ child' = Some(pid)
        /\ info' = Some(built)
        /\ IF print_ok
           THEN /\ pc' = [pc EXCEPT ![t] = Returned(t)]
                /\ last' = Outcome("start", TRUE, "", Some(built), FALSE, polled,
                                   Loaded(config), Resolved(openclaw_cmd), Some(pid))
                /\ UNCHANGED poisoned
           ELSE /\ pc' = [pc EXCEPT ![t] = "panicked"]
                /\ last' = Outcome("start", FALSE, "panic", None, FALSE, polled,
                                   Loaded(config), Resolved(openclaw_cmd), Some(pid))
                /\ poisoned' = TRUE
        /\ UNCHANGED <<lock, closing>>

\* (mutant) the executable is looked up before the credential is checked
StartFromIdle_locates_first(t, polled, c, i, prints) ==
    \E config \in ConfigLoads :
        IF ~config.ok
        THEN StartFails(t, "config", polled, Loaded(config), "not_called", c, i)
        ELSE \E token \in Tokens, openclaw_cmd \in Located :
                IF openclaw_cmd = None
                THEN StartFails(t, "not_found", polled, Loaded(config),
                                Resolved(openclaw_cmd), c, i)
                ELSE IF config.anthropic_api_key = None
                THEN StartFails(t, "no_api_key", polled, Loaded(config),
                                Resolved(openclaw_cmd), c, i)
                ELSE \E spawn_ok \in BOOLEAN :
                        IF ~spawn_ok
                        THEN StartFails(t, "spawn", polled, Loaded(config),
                                        Resolved(openclaw_cmd), c, i)
                        ELSE \E print_ok \in prints :
                                StartSpawns(t, polled, config, token, openclaw_cmd, print_ok)

\* start from the configuration load on; c and i are the fields as
\* reconciliation left them.  Each input is drawn where the code obtains it.
StartFromIdle(t, polled, c, i, prints) ==
    \E config \in ConfigLoads :
        IF ~config.ok
        THEN StartFails(t, "config", polled, Loaded(config), "not_called", c, i)
        ELSE IF config.anthropic_api_key = None
        THEN StartFails(t, "no_api_key", polled, Loaded(config), "not_called", c, i)
        ELSE \E token \in Tokens, openclaw_cmd \in Located :
                IF openclaw_cmd = None
                THEN StartFails(t, "not_found", polled, Loaded(config),
                                Resolved(openclaw_cmd), c, i)
                ELSE \E spawn_ok \in BOOLEAN :
                        IF ~spawn_ok
                        THEN StartFails(t, "spawn", polled, Loaded(config),
                                        Resolved(openclaw_cmd), c, i)
                        ELSE \E print_ok \in prints :
                                StartSpawns(t, polled, config, token, openclaw_cmd, print_ok)

\* start returns the stored GatewayInfo: the held process is still running
StartReturnsExisting(t, polled) ==
    /\ pc' = [pc EXCEPT ![t] = Returned(t)]
    /\ last' = Outcome("start", TRUE, "", info, FALSE, polled,
                       "not_loaded", "not_called", None)
    /\ UNCHANGED <<child, info, lock, poisoned, procs, closing>>

\* prints: the outcomes println! may have (TRUE: it succeeds)
start(t, prints) ==
    /\ pc[t] = "start"
    /\ lock = None
    /\ IF poisoned
       THEN StartFails(t, "lock", "none", "not_loaded", "not_called", child, info)
       ELSE \E polled \in Polls :
               IF polled = "alive" /\ info # None
               THEN StartReturnsExisting(t, polled)
               ELSE StartFromIdle(t, polled, Reconciled(polled, child),
                                  Reconciled(polled, info), prints)

---------------------------------------------------------------------------
(* SidecarManager::stop *)

\* stop up to and including child.kill(): with no handle held it clears the
\* fields and returns; a failed kill returns at once through `?`
stop(t, kill_r) ==
    /\ pc[t] = "stop"
    /\ lock = None
    /\ IF poisoned
       THEN /\ pc' = [pc EXCEPT ![t] = Returned(t)]
            /\ last' = Outcome("stop", FALSE, "lock", None, FALSE, "none",
                               "not_loaded", "not_called", None)
            /\ UNCHANGED <<child, info, lock, poisoned, procs, closing>>
       ELSE IF child = None
       THEN /\ child' = None
            /\ info' = None
            /\ pc' = [pc EXCEPT ![t] = Returned(t)]
            /\ last' = Outcome("stop", TRUE, "", None, FALSE, "none",
                               "not_loaded", "not_called", None)
            /\ UNCHANGED <<lock, poisoned, procs, closing>>
       ELSE IF kill_r = "err"
       THEN /\ pc' = [pc EXCEPT ![t] = Returned(t)]
            /\ last' = Outcome("stop", FALSE, "kill", None, FALSE, "none",
                               "not_loaded", "not_called", None)
            /\ UNCHANGED <<child, info, lock, poisoned, procs, closing>>
       ELSE /\ procs' = [procs EXCEPT ![child[1]].st =
                            IF @ = "running" THEN "killed" ELSE @]
            /\ lock' = Some(t)
            /\ pc' = [pc EXCEPT ![t] = "stop_wait"]
            /\ UNCHANGED <<child, info, poisoned, closing, last>>

\* (mutant) stop clears info and leaves the handle in place
StopFinishes_keeps_child(t, print_ok) ==
    /\ lock' = None
    /\ info' = None
    /\ pc' = [pc EXCEPT ![t] = IF print_ok THEN Returned(t) ELSE "panicked"]
    /\ last' = Outcome("stop", print_ok, IF print_ok THEN "" ELSE "panic", None,
                       FALSE, "none", "not_loaded", "not_called", None)
    /\ poisoned' = (poisoned \/ ~print_ok)
    /\ UNCHANGED <<child, procs, closing>>

\* the end of stop: println!, both fields are cleared, the lock is released
\* (a println! that fails panics before the fields are cleared)
StopFinishes(t, print_ok) ==
    /\ lock' = None
    /\ IF print_ok
       THEN /\ child' = None
            /\ info' = None
            /\ pc' = [pc EXCEPT ![t] = Returned(t)]
            /\ last' = Outcome("stop", TRUE, "", None, FALSE, "none",
                               "not_loaded", "not_called", None)
            /\ UNCHANGED poisoned
       ELSE /\ pc' = [pc EXCEPT ![t] = "panicked"]
            /\ last' = Outcome("stop", FALSE, "panic", None, FALSE, "none",
                               "not_loaded", "not_called", None)
            /\ poisoned' = TRUE
            /\ UNCHANGED <<child, info>>
    /\ UNCHANGED <<procs, closing>>

\* the rest of stop, with the lock still held: child.wait() returns once the
\* process has exited, or fails at any time; its Result is discarded
stop_wait(t, wait_r, prints) ==
    /\ pc[t] = "stop_wait"
    /\ lock = Some(t)
    /\ wait_r = "ok" => ~Alive(child[1])
    /\ \E print_ok \in prints : StopFinishes(t, print_ok)

---------------------------------------------------------------------------
(* SidecarManager::status *)

\* (mutant) status recovers the guard of a poisoned lock and carries on
status_recovers_poison(t) ==
    /\ pc[t] = "status"
    /\ lock = None
    /\ pc' = [pc EXCEPT ![t] = Returned(t)]
    /\ \E polled \in Polls :
          /\ child' = Reconciled(polled, child)
          /\ info' = Reconciled(polled, info)
          /\ last' = Outcome("status", TRUE, "", info', child' # None, polled,
                             "not_loaded", "not_called", None)
    /\ UNCHANGED <<lock, poisoned, procs, closing>>

\* status: a poisoned lock gives {running: false, info: None} at once;
\* otherwise the poll, the match on it, and the fields as it left them
status(t) ==
    /\ pc[t] = "status"
    /\ lock = None
    /\ pc' = [pc EXCEPT ![t] = Returned(t)]
    /\ IF poisoned
       THEN /\ last' = Outcome("status", TRUE, "", None, FALSE, "none",
                               "not_loaded", "not_called", None)
            /\ UNCHANGED <<child, info>>
       ELSE \E polled \in Polls :
               /\ child' = Reconciled(polled, child)
               /\ info' = Reconciled(polled, info)
               /\ last' = Outcome("status", TRUE, "", info', child' # None, polled,
                                  "not_loaded", "not_called", None)
    /\ UNCHANGED <<lock, poisoned, procs, closing>>

---------------------------------------------------------------------------
(* Specifications *)

\* println! succeeds
Next ==
    \/ \E t \in CmdThreads : start_gateway(t)
    \/ \E t \in CmdThreads : stop_gateway(t)
    \/ \E t \in CmdThreads : get_gateway_status(t)
    \/ on_window_event
    \/ \E p \in Pids : exit(p)
    \/ \E t \in CmdThreads : start(t, {TRUE})
    \/ \E t \in Threads, kill_r \in IoResults : stop(t, kill_r)
    \/ \E t \in Threads, wait_r \in IoResults : stop_wait(t, wait_r, {TRUE})
    \/ \E t \in CmdThreads : status(t)

Spec == Init /\ [][Next]_vars

TypeOK ==
    /\ child \in {None} \cup {Some(p) : p \in Pids}
    /\ Len(info) <= 1
    /\ lock \in {None} \cup {Some(t) : t \in Threads}
    /\ poisoned \in BOOLEAN
    /\ Len(procs) <= MaxSpawns
    /\ closing \in BOOLEAN

\* println! succeeds or fails: a failed println! panics with the lock held
\* and poisons it
NextPanic ==
    \/ \E t \in CmdThreads : start_gateway(t)
    \/ \E t \in CmdThreads : stop_gateway(t)
    \/ \E t \in CmdThreads : get_gateway_status(t)
    \/ on_window_event
    \/ \E p \in Pids : exit(p)
    \/ \E t \in CmdThreads : start(t, BOOLEAN)
    \/ \E t \in Threads, kill_r \in IoResults : stop(t, kill_r)
    \/ \E t \in Threads, wait_r \in IoResults : stop_wait(t, wait_r, BOOLEAN)
    \/ \E t \in CmdThreads : status(t)

SpecPanic == Init /\ [][NextPanic]_vars

\* a start racing a stop from Idle: one thread has called start, another has
\* called stop, and nothing else is called
InitRace ==
    /\ child = None
    /\ info = None
    /\ lock = None
    /\ poisoned = FALSE
    /\ procs = <<>>
    /\ \E s \in CmdThreads : \E k \in CmdThreads \ {s} :
          pc = [t \in Threads |-> IF t = s THEN "start"
                                  ELSE IF t = k THEN "stop" ELSE "idle"]
    /\ closing = FALSE
    /\ last = Outcome("none", TRUE, "", None, FALSE, "none",
                      "not_loaded", "not_called", None)

NextRace ==
    \/ \E p \in Pids : exit(p)
    \/ \E t \in CmdThreads : start(t, {TRUE})
    \/ \E t \in CmdThreads, kill_r \in IoResults : stop(t, kill_r)
    \/ \E t \in CmdThreads, wait_r \in IoResults : stop_wait(t, wait_r, {TRUE})

SpecRace == InitRace /\ [][NextRace]_vars

---------------------------------------------------------------------------
(* Properties *)

Idle == child = None /\ info = None
StartReturns(t) == pc[t] = "start" /\ pc'[t] = "idle"
StatusReturns(t) == pc[t] = "status" /\ pc'[t] = "idle"
HeldAlive == child # None /\ Alive(child[1])
HeldExited == child # None /\ ~Alive(child[1])

\* C1: the handle is present exactly when the GatewayInfo is, and a status
\* outcome has running = TRUE exactly when it carries an info
C1_PairInvariant ==
    /\ (child = None) <=> (info = None)
    /\ last.op = "status" => (last.running <=> last.info # None)

\* C1 witness: a status has reported a held process, after a start that failed
C1_Witness ==
    /\ last.op = "status" /\ last.running /\ child # None /\ info # None
    /\ Len(procs) = 2

\* C2 (as claimed): a start called while the held process is alive returns
\* the stored GatewayInfo, spawns nothing and does not load the configuration
C2_IdempotentStart ==
    [][\A t \in CmdThreads :
        (StartReturns(t) /\ HeldAlive) =>
            /\ last'.ok /\ last'.info = info
            /\ procs' = procs
            /\ last'.loaded = "not_loaded"
            /\ child' = child /\ info' = info]_vars

\* C3 (as claimed): at most one spawned process is alive
C3_SingleLiveProcess == Cardinality(LivePids) <= 1

\* C4 (as claimed): once a stop has returned, with success or with an error,
\* neither field is set until the next start
C4_CleanStop == last.op = "stop" => Idle

\* C5: with the held process exited, a status clears both fields and returns
\* {running: false, info: None}; a start either fails on the configuration,
\* the credential, the executable or the spawn, leaving both fields clear, or
\* spawns a new process and returns the GatewayInfo built for it
C5_ReconciliationOnExit ==
    [][\A t \in CmdThreads :
        /\ (StatusReturns(t) /\ HeldExited) =>
              /\ Idle'
              /\ ~last'.running /\ last'.info = None
        /\ (StartReturns(t) /\ HeldExited) =>
              IF last'.ok
              THEN LET pid == Len(procs) + 1
                   IN  /\ Len(procs') = pid
                       /\ SubSeq(procs', 1, Len(procs)) = procs
                       /\ last'.spawned = Some(pid)
                       /\ child' = Some(pid)
                       /\ last'.info = Some(GatewayInfo(procs'[pid].arg_port,
                                                        procs'[pid].env_token))
                       /\ info' = last'.info
              ELSE /\ Idle'
                   /\ procs' = procs
                   /\ \/ last'.err = "config" /\ last'.loaded = "error"
                      \/ last'.err = "no_api_key" /\ last'.loaded = "no_credential"
                      \/ last'.err = "not_found" /\ last'.located = "none"
                      \/ last'.err = "spawn" /\ last'.located = "found"]_vars

\* C5 witness: a start that found the held process exited has spawned anew
C5_Witness ==
    /\ last.op = "start" /\ last.poll = "exited" /\ last.ok
    /\ last.spawned = Some(2) /\ child = Some(2)

\* C6 (as claimed, for start -> exit -> start): the token of a process that
\* start spawns after finding the held one exited differs from the token of
\* every process spawned before
C6_TokenUniqueness ==
    (last.op = "start" /\ last.spawned # None /\ last.poll = "exited") =>
        \A p \in Pids \ {last.spawned[1]} :
            procs[p].env_token # procs[last.spawned[1]].env_token

\* C7: a start whose loaded configuration has no credential fails with the
\* no-API-key error, spawns nothing and leaves both fields clear; the status
\* that follows reports running = FALSE
C7_MissingCredential ==
    [][\A t \in CmdThreads :
        /\ (StartReturns(t) /\ last'.loaded = "no_credential") =>
              /\ ~last'.ok /\ last'.err = "no_api_key"
              /\ procs' = procs
              /\ Idle'
        /\ (StatusReturns(t) /\ last.op = "start" /\ last.loaded = "no_credential") =>
              ~last'.running]_vars

\* C7 witness: a start that found the held process exited has failed for
\* want of a credential
C7_Witness ==
    /\ last.op = "start" /\ last.loaded = "no_credential" /\ last.poll = "exited"
    /\ last.err = "no_api_key"

\* C8: a start that has a credential and whose locator resolves no path fails
\* with the not-found error, spawns nothing and leaves both fields clear
C8_MissingExecutable ==
    [][\A t \in CmdThreads :
        (StartReturns(t) /\ last'.loaded = "credential" /\ last'.located = "none") =>
            /\ ~last'.ok /\ last'.err = "not_found"
            /\ procs' = procs
            /\ Idle']_vars

\* C8 witness: a start that found the held process exited has failed to
\* locate the executable
C8_Witness ==
    /\ last.op = "start" /\ last.located = "none" /\ last.poll = "exited"
    /\ last.err = "not_found"

RaceDone == \A t \in CmdThreads : pc[t] = "idle"

C10_NoOrphanAfterShutdown == pc[Main] = "done" => LivePids = {}

\* C11: a status call always returns a GatewayStatus, never an error and never
\* by panicking; when the lock is poisoned it returns {running: false,
\* info: None} and leaves the handle, the info and the processes as they were
C11_StatusNeverFails ==
    [][\A t \in CmdThreads :
        (pc[t] = "status" /\ pc'[t] # "status") =>
            /\ pc'[t] = "idle"
            /\ last'.op = "status" /\ last'.ok /\ last'.err = ""
            /\ poisoned' = poisoned
            /\ poisoned =>
                  /\ ~last'.running /\ last'.info = None
                  /\ child' = child /\ info' = info /\ procs' = procs]_vars

\* C11 witness: with the lock poisoned and a live process still held, a
\* status has returned {running: false, info: None}
C11_Witness ==
    /\ poisoned /\ HeldAlive /\ info # None
    /\ last.op = "status" /\ ~last.running /\ last.info = None

\* C12 (as claimed): a start that returns an error returns the no-credential,
\* the executable-not-found or the spawn-failure error
C12_ThreeStartErrors ==
    [][\A t \in CmdThreads :
        (StartReturns(t) /\ ~last'.ok) =>
            last'.err \in {"no_api_key", "not_found", "spawn"}]_vars

\* C12 (amended): a start that returns an error returns one of five, each
\* for its own cause: the lock error when the lock is poisoned, the
\* configuration-load error when Config::load fails, the no-credential error
\* when the loaded configuration has no key, the not-found error when the
\* locator resolves nothing, the spawn error when Command::spawn fails
C12_StartErrors ==
    [][\A t \in CmdThreads :
        (StartReturns(t) /\ ~last'.ok) =>
            \/ last'.err = "lock" /\ poisoned /\ last'.loaded = "not_loaded"
            \/ last'.err = "config" /\ ~poisoned /\ last'.loaded = "error"
            \/ last'.err = "no_api_key" /\ ~poisoned
                  /\ last'.loaded = "no_credential"
            \/ last'.err = "not_found" /\ ~poisoned
                  /\ last'.loaded = "credential" /\ last'.located = "none"
            \/ last'.err = "spawn" /\ ~poisoned
                  /\ last'.loaded = "credential" /\ last'.located = "found"]_vars

\* C12 witness: a start has returned the lock error
C12_Witness ==
    /\ last.op = "start" /\ ~last.ok /\ last.err = "lock" /\ poisoned
    /\ \E t \in CmdThreads : pc[t] = "idle"

\* C13: a start whose Command::spawn fails returns the spawn error, spawns
\* nothing and leaves both fields clear; the start that follows it polls
\* nothing, loads the configuration and, with a credential and an executable,
\* spawns a new process or fails on the spawn again; only a start call spawns,
\* and at most once
C13_SpawnFailureRetryable ==
    [][/\ \A t \in CmdThreads :
            /\ (StartReturns(t) /\ last'.err = "spawn") =>
                  /\ ~last'.ok /\ last'.spawned = None
                  /\ last'.loaded = "credential" /\ last'.located = "found"
                  /\ procs' = procs
                  /\ Idle'
            /\ (StartReturns(t) /\ last.op = "start" /\ last.err = "spawn") =>
                  /\ Idle
                  /\ last'.poll = "none" /\ last'.loaded # "not_loaded"
                  /\ (last'.loaded = "credential" /\ last'.located = "found") =>
                        (last'.ok \/ last'.err = "spawn")
                  /\ IF last'.ok
                     THEN /\ procs' = Append(procs, procs'[Len(procs')])
                          /\ child' = Some(Len(procs'))
                          /\ last'.spawned = child'
                          /\ info' = last'.info /\ info' # None
                     ELSE Idle' /\ procs' = procs
       /\ Len(procs') # Len(procs) =>
            /\ Len(procs') = Len(procs) + 1
            /\ \E t \in CmdThreads : StartReturns(t) /\ last'.ok]_vars

\* C13 witness: a start that found the held process exited has failed on the
\* spawn: nothing is held and nothing was spawned
C13_Witness ==
    /\ last.op = "start" /\ last.err = "spawn" /\ last.poll = "exited"
    /\ Idle /\ Len(procs) = 1

StopActs(t) == pc[t] = "stop" /\ pc'[t] # "stop"
StopWaitReturns(t) == pc[t] = "stop_wait" /\ pc'[t] # "stop_wait"

\* C14 (as claimed, for the stops whose kill does not fail): a stop called
\* when the held process has exited polls it, clears both fields and returns
\* success without issuing a kill
C14_StopReconciles ==
    [][\A t \in Threads :
        (StopActs(t) /\ HeldExited
           /\ ~(pc'[t] = Returned(t) /\ last'.err = "kill")) =>
            /\ pc'[t] = Returned(t)
            /\ last'.op = "stop" /\ last'.ok
            /\ Idle']_vars


\* C15: when the poll fails, a status clears both fields and returns
\* {running: false, info: None}; a start clears both fields and goes on as
\* from Idle: it loads the configuration and either fails on it, on the
\* credential, on the executable or on the spawn, leaving both fields clear,
\* or spawns a new process and stores and returns the GatewayInfo built for it
C15_PollErrorAsExited ==
    [][\A t \in CmdThreads :
        /\ (StatusReturns(t) /\ last'.poll = "error") =>
              /\ child # None
              /\ Idle' /\ procs' = procs
              /\ last'.ok /\ ~last'.running /\ last'.info = None
        /\ (StartReturns(t) /\ last'.poll = "error") =>
              /\ child # None
              /\ last'.loaded # "not_loaded"
              /\ IF last'.ok
                 THEN LET pid == Len(procs) + 1
                      IN  /\ procs' = Append(procs, procs'[Len(procs')])
                          /\ last'.loaded = "credential" /\ last'.located = "found"
                          /\ last'.spawned = Some(pid) /\ child' = Some(pid)
                          /\ child' # child
                          /\ info' = Some(GatewayInfo(procs'[pid].arg_port,
                                                      procs'[pid].env_token))
                          /\ last'.info = info'
                 ELSE /\ Idle' /\ procs' = procs
                      /\ \/ last'.err = "config" /\ last'.loaded = "error"
                         \/ last'.err = "no_api_key" /\ last'.loaded = "no_credential"
                         \/ last'.err = "not_found" /\ last'.located = "none"
                         \/ last'.err = "spawn" /\ last'.located = "found"]_vars

\* C15 witness: a start whose poll failed has spawned a second process and
\* holds it
C15_Witness ==
    /\ last.op = "start" /\ last.poll = "error" /\ last.ok
    /\ last.spawned = Some(2) /\ child = Some(2) /\ info = last.info

\* C16 (as claimed): a pending status call never depends on the process's
\* exit: either it can take the lock and complete, or the operation that
\* holds the lock can finish and release it as things stand
C16_StatusNeverWaitsForChild ==
    \A t \in CmdThreads :
        pc[t] = "status" =>
            \/ ENABLED status(t)
            \/ \E k \in Threads : ENABLED stop_wait(k, "ok", {TRUE})

\* C17 (as claimed): when a stop that held a handle returns success, the
\* process it held has exited
C17_StopWaitsForExit ==
    [][\A t \in Threads :
        (StopWaitReturns(t) /\ pc'[t] = Returned(t) /\ last'.ok) =>
            procs'[child[1]].st = "exited"]_vars

\* C18: whenever a process is held, the stored GatewayInfo carries the token
\* placed in that process's environment and the port on its command line,
\* and its url is "ws://localhost:" followed by that port in decimal
C18_InfoMatchesProcess ==
    child # None =>
        /\ info # None
        /\ info[1].token = procs[child[1]].env_token
        /\ info[1].port = procs[child[1]].arg_port
        /\ info[1].url = <<"ws://localhost:">> \o Dec(procs[child[1]].arg_port)

\* C18 witness: the held process is the second one spawned, with another port
\* and another token than the first
C18_Witness ==
    /\ child = Some(2) /\ info # None
    /\ procs[2].arg_port = DefaultPort + 1 /\ procs[1].arg_port = DefaultPort
    /\ procs[2].env_token # procs[1].env_token
    /\ info[1].url = <<"ws://localhost:", "1", "8", "7", "9", "0">>

\* C19: a status whose poll finds the process still running leaves the
\* handle and the info as they were and returns {running: true, info: the
\* stored info}; no status spawns or signals a process; a status changes a
\* field only when its poll found the process exited or failed
C19_StatusReadOnlyWhileAlive ==
    [][\A t \in CmdThreads :
        StatusReturns(t) =>
            /\ procs' = procs
            /\ last'.poll = "alive" =>
                  /\ child # None /\ info # None
                  /\ child' = child /\ info' = info
                  /\ last'.ok /\ last'.running /\ last'.info = info
            /\ (child' # child \/ info' # info) =>
                  /\ last'.poll \in {"exited", "error"}
                  /\ Idle']_vars

\* C19 witness: a status has polled a live process and reported it, the
\* process and the stored info still being held
C19_Witness ==
    /\ last.op = "status" /\ last.poll = "alive"
    /\ last.running /\ last.info = info
    /\ HeldAlive /\ procs[child[1]].st = "running"
=============================================================================
